---- MODULE Spec2Model ----
(***************************************************************************)
(* Booking interval scheduling of the rental manager: the server's         *)
(* booking routes (create, update, batch create, available-apartments),    *)
(* the client store (addBooking, updateBooking, fetchBookings,             *)
(* getAvailableApartments) and the Assign / Bookings pages that call them  *)
(* (manual assignment, auto-assign).                                       *)
(*                                                                         *)
(* Instants are integers 0..MaxTime; ISO strings / Date objects / SQL      *)
(* timestamps of one instant compare as that integer.  An apartment id is  *)
(* an integer >= 1; Null (0) is SQL NULL / JS null and also the store's    *)
(* `undefined` after `x || undefined`; Undef (-1) is a request field that  *)
(* is absent.  A temporary-apartment label is 1 (some non-empty text).     *)
(***************************************************************************)
EXTENDS Integers, Sequences, FiniteSets, TLC

VARIABLES apartments, db, nextId, bookings, loading, resp,
          pc, sortedBookings, idx, assignedCount, failedCount, runLog, q, calls,
          runs, fetching

vars == <<apartments, db, nextId, bookings, loading, resp,
          pc, sortedBookings, idx, assignedCount, failedCount, runLog, q, calls,
          runs, fetching>>

serverVars == <<db, nextId>>
runVars == <<pc, sortedBookings, idx, assignedCount, failedCount, runLog>>
asyncVars == <<runs, fetching>>

(* ------------------------------ bounds --------------------------------- *)
MaxTime == 3
MaxBookings == 2
MaxApts == 2
MaxRunBookings == 3
MaxCallers == 2
MaxRuns == 2
MaxFetchRows == 51

(* --------------------------- value domains ----------------------------- *)
Undef == -1
Null == 0
TmpLabel == 1
PageLimit == 50

Times == 0..MaxTime
AptIds == 1..MaxApts
BookingIds == 1..MaxBookings
Callers == 1..MaxCallers
Runs == 1..MaxRuns


(* ------------------------- interval predicates ------------------------- *)
areIntervalsOverlappingInclusive(leftStart, leftEnd, rightStart, rightEnd) ==
  leftStart <= rightEnd /\ rightStart <= leftEnd

\* date-fns areIntervalsOverlapping(left, right), default (non-inclusive)
areIntervalsOverlapping(leftStart, leftEnd, rightStart, rightEnd) ==
  leftStart < rightEnd /\ rightStart < leftEnd

\* The date-fns release is not pinned by the sources.  Release 2 throws a
\* RangeError unless start <= end holds for both intervals; release 3 does
\* not throw and compares the intervals with their ends put in order.
DateFnsReleases == {2, 3}

areIntervalsOverlappingThrows(release, leftStart, leftEnd, rightStart, rightEnd) ==
  release = 2 /\ ~(leftStart <= leftEnd /\ rightStart <= rightEnd)

Earlier(a, b) == IF a <= b THEN a ELSE b

Later(a, b) == IF a <= b THEN b ELSE a

areIntervalsOverlappingOrdered(leftStart, leftEnd, rightStart, rightEnd) ==
  areIntervalsOverlapping(Earlier(leftStart, leftEnd), Later(leftStart, leftEnd),
                          Earlier(rightStart, rightEnd), Later(rightStart, rightEnd))

\* the WHERE clause of the server's conflict queries, for one stored row and
\* the request's (check_in, check_out) parameters
SqlOverlap(rowIn, rowOut, checkIn, checkOut) ==
  (rowIn <= checkIn /\ rowOut > checkIn) \/ (rowIn < checkOut /\ rowOut >= checkOut)

(* --------------------- store: getAvailableApartments -------------------- *)
\* the comparator handed to Array.prototype.sort
FavoriteCompareNone(a, b) == 0

FavoriteCompare(a, b) ==
  IF a.isFavorite /\ ~b.isFavorite THEN -1
  ELSE IF ~a.isFavorite /\ b.isFavorite THEN 1
  ELSE 0

\* Array.prototype.sort is a stable sort: x is placed after the last element
\* that does not compare greater than it
RECURSIVE InsertStable(_, _)
InsertStable(sorted, x) ==
  IF sorted = <<>> THEN <<x>>
  ELSE IF FavoriteCompare(sorted[Len(sorted)], x) <= 0 THEN Append(sorted, x)
  ELSE Append(InsertStable(SubSeq(sorted, 1, Len(sorted) - 1), x), sorted[Len(sorted)])

RECURSIVE SortByFavorite(_)
SortByFavorite(s) ==
  IF s = <<>> THEN <<>>
  ELSE InsertStable(SortByFavorite(SubSeq(s, 1, Len(s) - 1)), s[Len(s)])

IsAvailableIgnoringApartment(apartment, bks, checkIn, checkOut) ==
  ~\E i \in 1..Len(bks) :
       /\ bks[i].apt # Null
       /\ areIntervalsOverlapping(bks[i].ci, bks[i].co, checkIn, checkOut)

IsAvailable(apartment, bks, checkIn, checkOut) ==
  ~\E i \in 1..Len(bks) :
       /\ bks[i].apt = apartment.id
       /\ areIntervalsOverlapping(bks[i].ci, bks[i].co, checkIn, checkOut)

getAvailableApartments(apts, bks, checkIn, checkOut) ==
  SortByFavorite(SelectSeq(apts, LAMBDA a : IsAvailable(a, bks, checkIn, checkOut)))

\* the store's state after a call of getAvailableApartments: the function
\* reads get() and never calls set(); Array.prototype.filter answers a new
\* array and Array.prototype.sort orders in place the array it is called on,
\* which is that new array, so the arrays of the store are the ones of before
StateAfterQuerySortedInPlace(state) ==
  [state EXCEPT !.apartments = SortByFavorite(state.apartments)]

StateAfterQuery(state) == state

StoreState == [apartments |-> apartments, bookings |-> bookings, loading |-> loading]

(* ----------------- server: POST /bookings/available-apartments ---------- *)
\* ORDER BY is_favorite DESC, name ASC over the apartments table
ServerOrderByNameOnly(a, b) == a.name < b.name

ServerOrderBefore(a, b) ==
  \/ a.isFavorite /\ ~b.isFavorite
  \/ a.isFavorite = b.isFavorite /\ a.name < b.name

RECURSIVE OrderApartments(_)
OrderApartments(S) ==
  IF S = {} THEN <<>>
  ELSE LET first == CHOOSE a \in S : \A b \in S \ {a} : ServerOrderBefore(a, b)
       IN <<first>> \o OrderApartments(S \ {first})

UnavailableIds(rows, checkIn, checkOut) ==
  {r.apt : r \in {x \in rows : x.apt # Null /\ SqlOverlap(x.ci, x.co, checkIn, checkOut)}}

ServerAvailableApartments(aptTable, rows, checkIn, checkOut) ==
  SelectSeq(OrderApartments(aptTable),
            LAMBDA a : a.id \notin UnavailableIds(rows, checkIn, checkOut))

(* ------------------------- server: booking routes ----------------------- *)
ApartmentIdsOf(apts) == {apts[i].id : i \in 1..Len(apts)}

Truthy(x) == x # Undef /\ x # Null

OrNull(x) == IF Truthy(x) THEN x ELSE Null

\* bookings.apartment_id REFERENCES apartments(id): a write of an apartment_id
\* that is not in the apartments table fails, and the handler's catch answers
\* 500
ForeignKeyFails(apts, apt) == Truthy(apt) /\ apt \notin ApartmentIdsOf(apts)

RowById(rows, id) == CHOOSE r \in rows : r.id = id

PostStatusNoConflictQuery(rows, apts, req) ==
  IF req.co <= req.ci THEN 400
  ELSE IF Truthy(req.apt) /\ ~\E i \in 1..Len(apts) : apts[i].id = req.apt THEN 404
  ELSE 201

\* POST /bookings: the status the handler answers with
PostStatus(rows, apts, req) ==
  IF req.co <= req.ci THEN 400
  ELSE IF Truthy(req.apt)
          /\ \E r \in rows : r.apt = req.apt /\ SqlOverlap(r.ci, r.co, req.ci, req.co)
       THEN 409
  ELSE IF Truthy(req.apt) /\ ~\E i \in 1..Len(apts) : apts[i].id = req.apt THEN 404
  ELSE 201

\* the rows the conflict query of POST /bookings selects; dbGet hands one of
\* them to the 409 answer as conflictingBooking
PostConflicting(rows, req) ==
  {r \in rows : r.apt = req.apt /\ SqlOverlap(r.ci, r.co, req.ci, req.co)}

PostRow(id, req) ==
  [id |-> id, guest |-> req.guest, ci |-> req.ci, co |-> req.co,
   apt |-> OrNull(req.apt), tmp |-> OrNull(req.tmp)]

\* PUT /bookings/:id
PutDatesGiven(upd) == upd.ci # Undef \/ upd.co # Undef

PutCheckIn(old, upd) == IF upd.ci # Undef THEN upd.ci ELSE old.ci

PutCheckOut(old, upd) == IF upd.co # Undef THEN upd.co ELSE old.co

PutApartmentId(old, upd) == IF upd.apt # Undef THEN upd.apt ELSE old.apt

PutStatus(rows, id, upd) ==
  IF ~\E r \in rows : r.id = id THEN 404
  ELSE LET old == RowById(rows, id)
       IN IF PutDatesGiven(upd) /\ PutCheckOut(old, upd) <= PutCheckIn(old, upd) THEN 400
          ELSE IF /\ PutDatesGiven(upd)
                  /\ Truthy(PutApartmentId(old, upd))
                  /\ \E r \in rows :
                       /\ r.apt = PutApartmentId(old, upd)
                       /\ r.id # id
                       /\ SqlOverlap(r.ci, r.co, PutCheckIn(old, upd), PutCheckOut(old, upd))
               THEN 409
          ELSE IF /\ upd.guest = Undef /\ upd.ci = Undef /\ upd.co = Undef
                  /\ upd.apt = Undef /\ upd.tmp = Undef
               THEN 400
          ELSE IF ForeignKeyFails(apartments, upd.apt) THEN 500
          ELSE 200

PutRow(old, upd) ==
  [id |-> old.id,
   guest |-> IF upd.guest # Undef THEN upd.guest ELSE old.guest,
   ci |-> PutCheckIn(old, upd),
   co |-> PutCheckOut(old, upd),
   apt |-> IF upd.apt # Undef THEN OrNull(upd.apt) ELSE old.apt,
   tmp |-> IF upd.tmp # Undef THEN OrNull(upd.tmp) ELSE old.tmp]

PutRows(rows, id, upd) ==
  IF PutStatus(rows, id, upd) = 200
  THEN (rows \ {RowById(rows, id)}) \cup {PutRow(RowById(rows, id), upd)}
  ELSE rows

(* ------------------------------ the store ------------------------------- *)
FormatBookingNoApartment(row) ==
  [id |-> row.id, guest |-> row.guest, ci |-> row.ci, co |-> row.co,
   apt |-> Null, tmp |-> OrNull(row.tmp)]

\* the API booking converted to the local format
FormatBooking(row) ==
  [id |-> row.id, guest |-> row.guest, ci |-> row.ci, co |-> row.co,
   apt |-> OrNull(row.apt), tmp |-> OrNull(row.tmp)]

\* state.bookings.map(b => b.id === id ? formattedBooking : b)
ReplaceBooking(bks, id, fb) == [i \in 1..Len(bks) |-> IF bks[i].id = id THEN fb ELSE bks[i]]

UpdateDataTruthy(booking) ==
  [guest |-> booking.guest, ci |-> booking.ci, co |-> booking.co,
   apt |-> IF Truthy(booking.apt) THEN booking.apt ELSE Undef,
   tmp |-> IF Truthy(booking.tmp) THEN booking.tmp ELSE Undef]

\* updateBooking builds updateData from the Partial<Booking> it is given
UpdateData(booking) ==
  [guest |-> booking.guest, ci |-> booking.ci, co |-> booking.co,
   apt |-> booking.apt, tmp |-> booking.tmp]

\* updateBooking(id, booking): PUT, then replace the local booking on success
StoreUpdateBookingOptimistic(id, booking) ==
  LET upd == UpdateData(booking)
      status == PutStatus(db, id, upd)
  IN /\ resp' = status
     /\ db' = PutRows(db, id, upd)
     /\ bookings' = [k \in 1..Len(bookings) |->
                       IF bookings[k].id # id THEN bookings[k]
                       ELSE [bookings[k] EXCEPT
                               !.ci = IF booking.ci # Undef THEN booking.ci ELSE @,
                               !.co = IF booking.co # Undef THEN booking.co ELSE @,
                               !.apt = IF booking.apt # Undef THEN OrNull(booking.apt) ELSE @,
                               !.tmp = IF booking.tmp # Undef THEN OrNull(booking.tmp) ELSE @]]
     /\ UNCHANGED nextId

StoreUpdateBooking(id, booking) ==
  LET upd == UpdateData(booking)
      status == PutStatus(db, id, upd)
  IN /\ resp' = status
     /\ db' = PutRows(db, id, upd)
     /\ bookings' = IF status = 200
                    THEN ReplaceBooking(bookings, id, FormatBooking(RowById(db', id)))
                    ELSE bookings
     /\ UNCHANGED nextId

StoreIds == {bookings[i].id : i \in 1..Len(bookings)}

StoreBooking(id) == bookings[CHOOSE i \in 1..Len(bookings) : bookings[i].id = id]

IdsOf(apts) == [i \in 1..Len(apts) |-> apts[i].id]

\* calls[c] is the POST /bookings handler of caller c: idle, or between its
\* reads (conflict query, apartment lookup) and its INSERT
IdleCall == [pc |-> "idle", ci |-> 0, co |-> 0, apt |-> Undef]

NoCalls == [c \in Callers |-> IdleCall]

\* q holds the answer of the last availability query or overlap evaluation
\* runs[r] holds the locals of a call of autoAssignBookings that is under way:
\* where it is (idle, at the head of the loop, awaiting updateBooking, done),
\* its queue, its position, its counters and the answer of the server that
\* is on its way
IdleRun ==
  [pc |-> "idle", sortedBookings |-> <<>>, idx |-> 0,
   assignedCount |-> 0, failedCount |-> 0, reply |-> <<>>]

NoRuns == [r \in Runs |-> IdleRun]

NoQuery ==
  [kind |-> "none", ci |-> 0, co |-> 0, eci |-> 0, eco |-> 0, out |-> <<>>, err |-> FALSE,
   sql |-> FALSE, sqlSwapped |-> FALSE, js |-> FALSE, jsSwapped |-> FALSE,
   day |-> 0, apt |-> 0, counted |-> {}]

UnassignedIgnoringTemporary(b) == ~Truthy(b.apt)

Unassigned(b) == ~Truthy(b.apt) /\ ~Truthy(b.tmp)

\* AssignPage: bookings.filter(b => !b.apartmentId && !b.temporaryApartment)
unassignedBookings == SelectSeq(bookings, Unassigned)

(* ------------------- client actions: Bookings page ---------------------- *)
\* Under Spec the page handles one event at a time: a handler starts when no
\* auto-assign run is between two of its iterations (pc = "idle").
\* addBooking (BookingForm submit, batch import): POST /bookings, then append;
\* the n-th booking created is made for guest n
AddBooking(ci, co, apt, tmp) ==
  LET req == [guest |-> nextId, ci |-> ci, co |-> co, apt |-> apt, tmp |-> tmp]
      status == PostStatus(db, apartments, req)
  IN /\ pc = "idle"
     /\ nextId <= MaxBookings
     /\ resp' = status
     /\ IF status = 201
        THEN /\ db' = db \cup {PostRow(nextId, req)}
             /\ nextId' = nextId + 1
             /\ bookings' = Append(bookings, FormatBooking(PostRow(nextId, req)))
        ELSE UNCHANGED <<db, nextId, bookings>>
     /\ UNCHANGED <<apartments, asyncVars, loading, calls, runVars, q>>

\* handleFormSubmit with editingBooking: the form sends the guest name (as
\* prefilled), both dates, and the apartment unless "skip apartment" is ticked
EditBooking(id, ci, co, apt) ==
  /\ pc = "idle"
  /\ id \in StoreIds
  /\ StoreUpdateBooking(id, [guest |-> StoreBooking(id).guest, ci |-> ci, co |-> co,
                             apt |-> apt, tmp |-> Undef])
  /\ UNCHANGED <<apartments, asyncVars, loading, calls, runVars, q>>

\* DELETE /bookings/:id
DeleteStatus(rows, id) == IF \E r \in rows : r.id = id THEN 200 ELSE 404

\* confirmDelete of the Bookings page: deleteBooking sends the DELETE and, on
\* success, filters the booking out of the store
confirmDelete(id) ==
  /\ id \in StoreIds
  /\ resp' = DeleteStatus(db, id)
  /\ db' = {r \in db : r.id # id}
  /\ bookings' = IF DeleteStatus(db, id) = 200
                 THEN SelectSeq(bookings, LAMBDA b : b.id # id)
                 ELSE bookings
  /\ UNCHANGED <<apartments, asyncVars, loading, calls, nextId, runVars, q>>

\* handleUpdateAssignment(bookingId, apartmentId): the select of the booking
\* list offers every apartment and "unassigned"; a booking with a temporary
\* apartment only offers the remove button
handleUpdateAssignment(id, apt) ==
  /\ id \in StoreIds
  /\ apt \in ApartmentIdsOf(apartments) \cup {Null}
  /\ Truthy(StoreBooking(id).tmp) => apt = Null
  /\ StoreUpdateBooking(id, [guest |-> Undef, ci |-> Undef, co |-> Undef, apt |-> apt, tmp |-> Null])
  /\ UNCHANGED <<apartments, asyncVars, loading, calls, runVars, q>>

UpdateAssignment(id, apt) ==
  /\ pc = "idle"
  /\ handleUpdateAssignment(id, apt)

(* --------------------- client actions: Assign page ---------------------- *)
\* handleConfirmAssign, regular mode: the dialog offers the store's available
\* apartments for the selected unassigned booking
handleConfirmAssign(id, apt) ==
  /\ id \in StoreIds
  /\ Unassigned(StoreBooking(id))
  /\ \E i \in 1..Len(getAvailableApartments(apartments, bookings, StoreBooking(id).ci, StoreBooking(id).co)) :
        getAvailableApartments(apartments, bookings, StoreBooking(id).ci, StoreBooking(id).co)[i].id = apt
  /\ StoreUpdateBooking(id, [guest |-> Undef, ci |-> Undef, co |-> Undef, apt |-> apt, tmp |-> Undef])
  /\ UNCHANGED <<apartments, asyncVars, loading, calls, runVars, q>>

ConfirmAssign(id, apt) ==
  /\ pc = "idle"
  /\ handleConfirmAssign(id, apt)

\* handleConfirmAssign, temporary mode
handleConfirmAssignTemporary(id) ==
  /\ id \in StoreIds
  /\ Unassigned(StoreBooking(id))
  /\ StoreUpdateBooking(id, [guest |-> Undef, ci |-> Undef, co |-> Undef, apt |-> Undef, tmp |-> TmpLabel])
  /\ UNCHANGED <<apartments, asyncVars, loading, calls, runVars, q>>

ConfirmAssignTemporary(id) ==
  /\ pc = "idle"
  /\ handleConfirmAssignTemporary(id)

\* the orders in which ORDER BY check_in DESC can answer the rows; rows of one
\* check_in come in any order
RECURSIVE CheckInDescOrders(_)
CheckInDescOrders(rows) ==
  IF rows = {} THEN {<<>>}
  ELSE UNION {{<<r>> \o s : s \in CheckInDescOrders(rows \ {r})} :
                 r \in {x \in rows : \A y \in rows : x.ci >= y.ci}}

\* fetchBookings: GET /bookings without parameters answers the first page
\* (limit 50) of the rows
FetchedPages ==
  {SubSeq(s, 1, IF Len(s) < PageLimit THEN Len(s) ELSE PageLimit) : s \in CheckInDescOrders(db)}

FetchBookings ==
  /\ pc = "idle"
  /\ \E page \in FetchedPages :
        bookings' = [i \in 1..Len(page) |-> FormatBooking(page[i])]
  /\ loading' = FALSE
  /\ resp' = 200
  /\ UNCHANGED <<apartments, asyncVars, calls, serverVars, runVars, q>>

(* ----------------------- server: POST /bookings/batch ------------------- *)
\* the loop over the request's bookings: an invalid one is skipped, a valid
\* one is inserted with its guest_name (the n-th booking stored names guest n)
\* and its apartment_id
RECURSIVE BatchStatus(_)
BatchStatus(reqs) ==
  IF reqs = <<>> THEN 201
  ELSE IF Head(reqs).co <= Head(reqs).ci THEN BatchStatus(Tail(reqs))
  ELSE IF ForeignKeyFails(apartments, Head(reqs).apt) THEN 500
  ELSE BatchStatus(Tail(reqs))

\* the rows inserted before a failing INSERT stay (no transaction)
RECURSIVE BatchInsert(_, _, _)
BatchInsert(rows, id, reqs) ==
  IF reqs = <<>> THEN rows
  ELSE IF Head(reqs).co <= Head(reqs).ci THEN BatchInsert(rows, id, Tail(reqs))
  ELSE IF ForeignKeyFails(apartments, Head(reqs).apt) THEN rows
  ELSE BatchInsert(rows \cup {PostRow(id, [Head(reqs) EXCEPT !.guest = id, !.tmp = Null])},
                   id + 1, Tail(reqs))

BatchRequests ==
  [guest : {Undef}, ci : Times, co : Times, apt : AptIds \cup {Null}, tmp : {Undef}]

BatchCreate(reqs) ==
  /\ pc = "idle"
  /\ db' = BatchInsert(db, nextId, reqs)
  /\ nextId' = nextId + Cardinality(db') - Cardinality(db)
  /\ resp' = BatchStatus(reqs)
  /\ UNCHANGED <<apartments, asyncVars, loading, calls, bookings, runVars, q>>

(* ----------------------- AssignPage: autoAssignBookings ----------------- *)
\* [...unassignedBookings].sort((a, b) => a.checkIn - b.checkIn), a stable sort
CheckInCompareNone(a, b) == 0

CheckInCompare(a, b) == a.ci - b.ci

RECURSIVE InsertByCheckIn(_, _)
InsertByCheckIn(sorted, x) ==
  IF sorted = <<>> THEN <<x>>
  ELSE IF CheckInCompare(sorted[Len(sorted)], x) <= 0 THEN Append(sorted, x)
  ELSE Append(InsertByCheckIn(SubSeq(sorted, 1, Len(sorted) - 1), x), sorted[Len(sorted)])

RECURSIVE SortByCheckIn(_)
SortByCheckIn(s) ==
  IF s = <<>> THEN <<>>
  ELSE InsertByCheckIn(SortByCheckIn(SubSeq(s, 1, Len(s) - 1)), s[Len(s)])

\* availableApts.find(apt => apt.isFavorite) || availableApts[0]
ApartmentToAssign(availableApts) ==
  IF \E i \in 1..Len(availableApts) : availableApts[i].isFavorite
  THEN availableApts[CHOOSE i \in 1..Len(availableApts) :
                        /\ availableApts[i].isFavorite
                        /\ \A j \in 1..(i - 1) : ~availableApts[j].isFavorite]
  ELSE availableApts[1]

AutoAssignStart ==
  /\ pc = "idle"
  /\ unassignedBookings # <<>>
  /\ pc' = "running"
  /\ sortedBookings' = SortByCheckIn(unassignedBookings)
  /\ idx' = 1
  /\ assignedCount' = 0
  /\ failedCount' = 0
  /\ runLog' = <<>>
  /\ UNCHANGED <<apartments, asyncVars, loading, calls, serverVars, bookings, resp, q>>

\* one iteration of the for loop
AutoAssignStep ==
  /\ pc = "running"
  /\ LET booking == sortedBookings[idx]
         availableApts == getAvailableApartments(apartments, bookings, booking.ci, booking.co)
     IN /\ IF Len(availableApts) > 0
           THEN /\ StoreUpdateBooking(booking.id,
                      [guest |-> Undef, ci |-> Undef, co |-> Undef,
                       apt |-> ApartmentToAssign(availableApts).id, tmp |-> Undef])
                /\ assignedCount' = IF resp' = 200 THEN assignedCount + 1 ELSE assignedCount
                /\ failedCount' = IF resp' = 200 THEN failedCount ELSE failedCount + 1
                /\ runLog' = Append(runLog,
                      [id |-> booking.id, avail |-> IdsOf(availableApts),
                       apt |-> IF resp' = 200 THEN ApartmentToAssign(availableApts).id ELSE Null])
           ELSE /\ failedCount' = failedCount + 1
                /\ runLog' = Append(runLog, [id |-> booking.id, avail |-> <<>>, apt |-> Null])
                /\ UNCHANGED <<serverVars, bookings, resp, assignedCount>>
  /\ idx' = idx + 1
  /\ pc' = IF idx = Len(sortedBookings) THEN "done" ELSE "running"
  /\ UNCHANGED <<apartments, asyncVars, loading, calls, sortedBookings, q>>

\* the closing toast; the run's locals go out of scope
AutoAssignFinish ==
  /\ pc = "done"
  /\ pc' = "idle"
  /\ sortedBookings' = <<>>
  /\ idx' = 0
  /\ assignedCount' = 0
  /\ failedCount' = 0
  /\ runLog' = <<>>
  /\ UNCHANGED <<apartments, asyncVars, loading, calls, serverVars, bookings, resp, q>>

(* ------------------------------ specification --------------------------- *)
\* GET /apartments answers ORDER BY created_at DESC; ids number the apartments
\* in creation order
ApartmentLists ==
  UNION {{[i \in 1..n |-> [id |-> n + 1 - i, name |-> n + 1 - i, isFavorite |-> fav[n + 1 - i]]] :
            fav \in [1..n -> BOOLEAN]} : n \in 1..MaxApts}

\* an apartment id of a request: one of the list, or one that is not in it
\* (the list has fewer than MaxApts apartments), or none
RequestApts == AptIds \cup {Undef}

Init ==
  /\ apartments \in ApartmentLists
  /\ runs = NoRuns
  /\ fetching = <<>>
  /\ loading = FALSE
  /\ db = {}
  /\ nextId = 1
  /\ bookings = <<>>
  /\ resp = 0
  /\ pc = "idle"
  /\ sortedBookings = <<>>
  /\ idx = 0
  /\ assignedCount = 0
  /\ failedCount = 0
  /\ runLog = <<>>
  /\ q = NoQuery
  /\ calls = NoCalls

Next ==
  \/ \E ci, co \in Times, apt \in RequestApts, tmp \in {Undef, TmpLabel} : AddBooking(ci, co, apt, tmp)
  \/ \E id \in BookingIds, ci, co \in Times, apt \in RequestApts : EditBooking(id, ci, co, apt)
  \/ \E id \in BookingIds, apt \in AptIds \cup {Null} : UpdateAssignment(id, apt)
  \/ \E id \in BookingIds, apt \in AptIds : ConfirmAssign(id, apt)
  \/ \E id \in BookingIds : ConfirmAssignTemporary(id)
  \/ FetchBookings
  \/ \E n \in 1..MaxBookings : \E reqs \in [1..n -> BatchRequests] :
        /\ n <= MaxBookings + 1 - nextId
        /\ BatchCreate(reqs)
  \/ AutoAssignStart
  \/ AutoAssignStep
  \/ AutoAssignFinish

\* one user, one event at a time; the batch route is called on the server
\* directly and leaves the store as it is until the next fetchBookings
Spec == Init /\ [][Next]_vars

(* --------------- availability queries and overlap evaluations ----------- *)
\* the store's getAvailableApartments(checkIn, checkOut) on the current store
QueryStore(ci, co) ==
  /\ q = NoQuery
  /\ ci < co
  /\ q' = [NoQuery EXCEPT !.kind = "store", !.ci = ci, !.co = co,
                          !.out = IdsOf(getAvailableApartments(apartments, bookings, ci, co))]
  /\ apartments' = StateAfterQuery(StoreState).apartments
  /\ bookings' = StateAfterQuery(StoreState).bookings
  /\ loading' = StateAfterQuery(StoreState).loading
  /\ UNCHANGED <<asyncVars, calls, serverVars, resp, runVars>>

\* POST /bookings/available-apartments on the current tables
QueryServer(ci, co) ==
  /\ q = NoQuery
  /\ ci < co
  /\ q' = [NoQuery EXCEPT !.kind = "server", !.ci = ci, !.co = co,
                          !.out = IdsOf(ServerAvailableApartments(
                                     {apartments[i] : i \in 1..Len(apartments)}, db, ci, co))]
  /\ UNCHANGED <<apartments, asyncVars, loading, calls, serverVars, bookings, resp, runVars>>

\* both overlap predicates on a stored booking's interval and a requested
\* window, in the two argument orders
EvalOverlap(eci, eco, ci, co) ==
  /\ q = NoQuery
  /\ \E r \in db : r.ci = eci /\ r.co = eco
  /\ ci < co
  /\ q' = [NoQuery EXCEPT !.kind = "overlap", !.ci = ci, !.co = co, !.eci = eci, !.eco = eco,
                          !.sql = SqlOverlap(eci, eco, ci, co),
                          !.sqlSwapped = SqlOverlap(ci, co, eci, eco),
                          !.js = areIntervalsOverlapping(eci, eco, ci, co),
                          !.jsSwapped = areIntervalsOverlapping(ci, co, eci, eco)]
  /\ UNCHANGED <<apartments, asyncVars, loading, calls, serverVars, bookings, resp, runVars>>

\* the answer is consumed before the next request
QueryDone ==
  /\ q # NoQuery
  /\ q' = NoQuery
  /\ UNCHANGED <<apartments, asyncVars, loading, calls, serverVars, bookings, resp, runVars>>

\* any table of valid bookings on those apartments
BookingRows(id, apts) ==
  {r \in [id : {id}, guest : {id}, ci : Times, co : Times,
          apt : ApartmentIdsOf(apts) \cup {Null}, tmp : {Null, TmpLabel}] : r.ci < r.co}

BookingTables(apts) ==
  UNION {{{f[i] : i \in 1..k} : f \in {g \in [1..k -> UNION {BookingRows(i, apts) : i \in 1..k}] :
                                         \A i \in 1..k : g[i].id = i}} :
         k \in 0..MaxBookings}

RECURSIVE RowsInIdOrder(_, _)
RowsInIdOrder(rows, id) ==
  IF rows = {} THEN <<>>
  ELSE <<FormatBooking(RowById(rows, id))>> \o RowsInIdOrder(rows \ {RowById(rows, id)}, id + 1)

InitTables ==
  /\ apartments \in ApartmentLists
  /\ runs = NoRuns
  /\ fetching = <<>>
  /\ db \in BookingTables(apartments)
  /\ nextId = Cardinality(db) + 1
  /\ bookings = RowsInIdOrder(db, 1)
  /\ resp = 0
  /\ pc = "idle"
  /\ sortedBookings = <<>>
  /\ idx = 0
  /\ assignedCount = 0
  /\ failedCount = 0
  /\ runLog = <<>>
  /\ q = NoQuery
  /\ calls = NoCalls

InitQuery ==
  /\ InitTables
  /\ loading = FALSE

NextQuery ==
  \/ \E ci, co \in Times : QueryStore(ci, co)
  \/ \E ci, co \in Times : QueryServer(ci, co)
  \/ \E eci, eco, ci, co \in Times : EvalOverlap(eci, eco, ci, co)
  \/ QueryDone
  \/ \E ci, co \in Times, apt \in RequestApts :
        /\ q = NoQuery
        /\ AddBooking(ci, co, apt, Undef)
  \/ \E id \in BookingIds, ci, co \in Times, apt \in RequestApts :
        /\ q = NoQuery
        /\ EditBooking(id, ci, co, apt)

\* the queries and the conflict checks of create and update, from any tables
SpecQuery == InitQuery /\ [][NextQuery]_vars

(* ------------- availability queries on a window with end <= start ------- *)
\* the filter of getAvailableApartments calls areIntervalsOverlapping for the
\* bookings of the apartments of the list (booking.apartmentId === apartment.id
\* is tested first); a RangeError leaves the query without a result
StoreQueryThrows(release, apts, bks, checkIn, checkOut) ==
  \E i \in 1..Len(apts), k \in 1..Len(bks) :
     /\ bks[k].apt = apts[i].id
     /\ areIntervalsOverlappingThrows(release, bks[k].ci, bks[k].co, checkIn, checkOut)

StoreQueryAnswer(apts, bks, checkIn, checkOut) ==
  SortByFavorite(SelectSeq(apts, LAMBDA a :
     ~\E k \in 1..Len(bks) :
         /\ bks[k].apt = a.id
         /\ areIntervalsOverlappingOrdered(bks[k].ci, bks[k].co, checkIn, checkOut)))

\* the best-dates view asks for [day, day + stayDuration - 1], a window of
\* length zero for a stay of one day
QueryStoreRange(release, ci, co) ==
  /\ q = NoQuery
  /\ co <= ci
  /\ q' = IF StoreQueryThrows(release, apartments, bookings, ci, co)
          THEN [NoQuery EXCEPT !.kind = "store", !.ci = ci, !.co = co, !.err = TRUE]
          ELSE [NoQuery EXCEPT !.kind = "store", !.ci = ci, !.co = co,
                               !.out = IdsOf(StoreQueryAnswer(apartments, bookings, ci, co))]
  /\ apartments' = StateAfterQuery(StoreState).apartments
  /\ bookings' = StateAfterQuery(StoreState).bookings
  /\ loading' = StateAfterQuery(StoreState).loading
  /\ UNCHANGED <<asyncVars, calls, serverVars, resp, runVars>>

\* POST /bookings/available-apartments validates the two dates as ISO 8601
\* and nothing else
QueryServerRange(ci, co) ==
  /\ q = NoQuery
  /\ co <= ci
  /\ q' = [NoQuery EXCEPT !.kind = "server", !.ci = ci, !.co = co,
                          !.out = IdsOf(ServerAvailableApartments(
                                     {apartments[i] : i \in 1..Len(apartments)}, db, ci, co))]
  /\ UNCHANGED <<apartments, asyncVars, loading, calls, serverVars, bookings, resp, runVars>>

NextRange ==
  \/ \E release \in DateFnsReleases, ci, co \in Times : QueryStoreRange(release, ci, co)
  \/ \E ci, co \in Times : QueryServerRange(ci, co)
  \/ QueryDone

SpecRange == InitQuery /\ [][NextRange]_vars

(* --------- getAvailableApartments called at any moment, any window ------ *)
\* a page may call the query while a fetch is under way (loading is true)
InitFrame ==
  /\ InitTables
  /\ loading \in BOOLEAN

NextFrame ==
  \/ \E ci, co \in Times : QueryStore(ci, co)
  \/ \E release \in DateFnsReleases, ci, co \in Times : QueryStoreRange(release, ci, co)
  \/ QueryDone

SpecFrame == InitFrame /\ [][NextFrame]_vars

(* ----------------------- per-day occupancy views ------------------------- *)
\* a day of a calendar is the instant of its midnight; each view decides for
\* a booking of the store whether it occupies the day
\* BestDatesRecommendation, bestDates: the bookings counted into
\* totalOccupancy for a day of the stay (every booking of the store, whatever
\* its apartment)
dayBookings(bks, day) ==
  SelectSeq(bks, LAMBDA booking : day >= booking.ci /\ day <= booking.co)

\* OccupancyCalendar, apartmentAvailability: the bookings that make isBooked
\* true for an apartment and a day
isBooked(bks, apartmentId, day) ==
  SelectSeq(bks, LAMBDA booking :
     /\ booking.apt = apartmentId
     /\ day >= booking.ci /\ day < booking.co)

\* ApartmentsPage: bookings.filter(b => b.apartmentId === selectedApartmentId)
selectedApartmentBookings(bks, selectedApartmentId) ==
  SelectSeq(bks, LAMBDA booking : booking.apt = selectedApartmentId)

\* ApartmentsPage, apartmentAvailability: the bookings of the selected
\* apartment that the month view can show on a day
monthViewBookings(bks, selectedApartmentId, day) ==
  SelectSeq(selectedApartmentBookings(bks, selectedApartmentId),
            LAMBDA booking : day >= booking.ci /\ day < booking.co)

BookingIdsOf(bks) == {bks[k].id : k \in 1..Len(bks)}

\* the best-dates view scores a day of a stay
ScoreDay(day) ==
  /\ q = NoQuery
  /\ q' = [NoQuery EXCEPT !.kind = "bestDates", !.day = day,
                          !.counted = BookingIdsOf(dayBookings(bookings, day))]
  /\ UNCHANGED <<apartments, asyncVars, loading, calls, serverVars, bookings, resp, runVars>>

\* the occupancy grid fills the cell of an apartment and a day
GridCell(i, day) ==
  /\ q = NoQuery
  /\ i \in 1..Len(apartments)
  /\ q' = [NoQuery EXCEPT !.kind = "grid", !.day = day, !.apt = apartments[i].id,
                          !.counted = BookingIdsOf(isBooked(bookings, apartments[i].id, day))]
  /\ UNCHANGED <<apartments, asyncVars, loading, calls, serverVars, bookings, resp, runVars>>

\* the month view of the selected apartment fills a day
MonthViewDay(i, day) ==
  /\ q = NoQuery
  /\ i \in 1..Len(apartments)
  /\ q' = [NoQuery EXCEPT !.kind = "month", !.day = day, !.apt = apartments[i].id,
                          !.counted = BookingIdsOf(
                                         monthViewBookings(bookings, apartments[i].id, day))]
  /\ UNCHANGED <<apartments, asyncVars, loading, calls, serverVars, bookings, resp, runVars>>

NextOccupancy ==
  \/ \E day \in Times : ScoreDay(day)
  \/ \E i \in 1..MaxApts, day \in Times : GridCell(i, day)
  \/ \E i \in 1..MaxApts, day \in Times : MonthViewDay(i, day)
  \/ QueryDone

\* the three views on any tables
SpecOccupancy == InitQuery /\ [][NextOccupancy]_vars

(* ------------- POST /bookings called by concurrent callers --------------- *)
\* the handler up to its last read: every `await dbGet` gives way to the other
\* requests; the apartments table does not change, so the two reads are taken
\* in one step
PostCheck(c, ci, co, apt) ==
  LET req == [guest |-> c, ci |-> ci, co |-> co, apt |-> apt, tmp |-> Undef]
      status == PostStatus(db, apartments, req)
  IN /\ calls[c].pc = "idle"
     /\ nextId + Cardinality({d \in Callers : calls[d].pc = "checked"}) <= MaxBookings
     /\ IF status = 201
        THEN /\ calls' = [calls EXCEPT ![c] = [pc |-> "checked", ci |-> ci, co |-> co, apt |-> apt]]
             /\ UNCHANGED resp
        ELSE /\ resp' = status
             /\ UNCHANGED calls
     /\ UNCHANGED <<apartments, asyncVars, loading, serverVars, bookings, runVars, q>>

\* the handler from `await dbRun(INSERT ...)` on: the row is written as the
\* request gave it, no transaction spans the reads and the write
PostInsert(c) ==
  /\ calls[c].pc = "checked"
  /\ db' = db \cup {PostRow(nextId, [guest |-> c, ci |-> calls[c].ci, co |-> calls[c].co,
                                     apt |-> calls[c].apt, tmp |-> Undef])}
  /\ nextId' = nextId + 1
  /\ resp' = 201
  /\ calls' = [calls EXCEPT ![c] = IdleCall]
  /\ UNCHANGED <<apartments, asyncVars, loading, bookings, runVars, q>>

NextRace ==
  \/ \E c \in Callers, ci, co \in Times, apt \in RequestApts : PostCheck(c, ci, co, apt)
  \/ \E c \in Callers : PostInsert(c)

SpecRace == Init /\ [][NextRace]_vars

(* ------------------- an auto-assign run over any store ------------------ *)
\* any table of up to MaxRunBookings valid bookings, each unassigned or
\* assigned to an apartment
RECURSIVE RunTablesOf(_, _)
RunTablesOf(apts, k) ==
  IF k = 0 THEN {{}}
  ELSE {t \cup {r} : t \in RunTablesOf(apts, k - 1),
                     r \in {x \in BookingRows(k, apts) : x.tmp = Null}}

RunTables(apts) == UNION {RunTablesOf(apts, k) : k \in 0..MaxRunBookings}

InitRun ==
  /\ apartments \in ApartmentLists
  /\ runs = NoRuns
  /\ fetching = <<>>
  /\ loading = FALSE
  /\ db \in RunTables(apartments)
  /\ nextId = Cardinality(db) + 1
  /\ bookings = RowsInIdOrder(db, 1)
  /\ resp = 0
  /\ pc = "idle"
  /\ sortedBookings = <<>>
  /\ idx = 0
  /\ assignedCount = 0
  /\ failedCount = 0
  /\ runLog = <<>>
  /\ q = NoQuery
  /\ calls = NoCalls

NextRun ==
  \/ AutoAssignStart
  \/ AutoAssignStep
  \/ AutoAssignFinish

\* the Auto Assign button pressed on a store that is in step with the server,
\* nothing else happening during the run
SpecRun == InitRun /\ [][NextRun]_vars

(* ------------- handlers between the iterations of a run ----------------- *)
\* autoAssignBookings awaits every updateBooking, and the Assign page and the
\* booking list stay usable meanwhile: a click handler may run between two
\* iterations of the loop
NextAsync ==
  \/ \E ci, co \in Times, apt \in RequestApts : AddBooking(ci, co, apt, Undef)
  \/ \E id \in BookingIds, apt \in AptIds \cup {Null} : handleUpdateAssignment(id, apt)
  \/ \E id \in BookingIds, apt \in AptIds : handleConfirmAssign(id, apt)
  \/ \E id \in BookingIds : handleConfirmAssignTemporary(id)
  \/ AutoAssignStart
  \/ AutoAssignStep
  \/ AutoAssignFinish

SpecAsync == Init /\ [][NextAsync]_vars

(* ---------- runs of autoAssignBookings and a fetch under way ------------ *)
\* autoAssignBookings is an async function: it gives way at every
\* `await updateBooking`, the Auto Assign button stays enabled meanwhile
\* (disabled only when the store has no unassigned booking), and the answer
\* of a fetchBookings sent earlier may arrive between two of its steps.
\* The server handles a request when it is sent; the answer reaches the
\* store in a later step.
RunAdvance(run) ==
  [run EXCEPT !.idx = run.idx + 1,
              !.pc = IF run.idx = Len(run.sortedBookings) THEN "done" ELSE "loop",
              !.reply = <<>>]

\* the button's onClick: the queue is the unassigned bookings of the render;
\* a new run takes the first record that has not been used
RunStart(r) ==
  /\ runs[r].pc = "idle"
  /\ \A other \in 1..(r - 1) : runs[other].pc # "idle"
  /\ unassignedBookings # <<>>
  /\ runs' = [runs EXCEPT ![r] = [IdleRun EXCEPT !.pc = "loop",
                                     !.sortedBookings = SortByCheckIn(unassignedBookings),
                                     !.idx = 1]]
  /\ UNCHANGED <<apartments, loading, calls, serverVars, bookings, resp, runVars, q, fetching>>

\* an iteration up to its await: the availability is computed on the store
\* as it is now and the PUT is sent (updateBooking up to bookingsAPI.update)
RunSend(r) ==
  /\ runs[r].pc = "loop"
  /\ LET run == runs[r]
         booking == run.sortedBookings[run.idx]
         availableApts == getAvailableApartments(apartments, bookings, booking.ci, booking.co)
         upd == UpdateData([guest |-> Undef, ci |-> Undef, co |-> Undef,
                            apt |-> ApartmentToAssign(availableApts).id, tmp |-> Undef])
     IN IF Len(availableApts) > 0
        THEN /\ db' = PutRows(db, booking.id, upd)
             /\ runs' = [runs EXCEPT ![r] =
                           [run EXCEPT !.pc = "await",
                                       !.reply = <<[status |-> PutStatus(db, booking.id, upd),
                                                    booking |-> IF PutStatus(db, booking.id, upd) = 200
                                                                THEN FormatBooking(RowById(db', booking.id))
                                                                ELSE booking]>>]]
        ELSE /\ runs' = [runs EXCEPT ![r] =
                           RunAdvance([run EXCEPT !.failedCount = run.failedCount + 1])]
             /\ UNCHANGED db
  /\ UNCHANGED <<apartments, loading, calls, nextId, bookings, resp, runVars, q, fetching>>

\* the rest of the iteration: updateBooking replaces the booking in the store
\* by the one of the answer, or throws and the catch counts a failure
RunReceive(r) ==
  /\ runs[r].pc = "await"
  /\ LET run == runs[r]
         reply == run.reply[1]
     IN /\ resp' = reply.status
        /\ bookings' = IF reply.status = 200
                       THEN ReplaceBooking(bookings, reply.booking.id, reply.booking)
                       ELSE bookings
        /\ runs' = [runs EXCEPT ![r] =
                      RunAdvance(IF reply.status = 200
                                 THEN [run EXCEPT !.assignedCount = run.assignedCount + 1]
                                 ELSE [run EXCEPT !.failedCount = run.failedCount + 1])]
  /\ UNCHANGED <<apartments, loading, calls, serverVars, runVars, q, fetching>>

\* the closing toast; the button is pressed MaxRuns times at most, a record
\* is not used again
RunFinish(r) ==
  /\ runs[r].pc = "done"
  /\ runs' = [runs EXCEPT ![r] = [IdleRun EXCEPT !.pc = "finished"]]
  /\ UNCHANGED <<apartments, loading, calls, serverVars, bookings, resp, runVars, q, fetching>>

\* fetchBookings up to its await: loading is set and GET /bookings is sent
FetchStart ==
  /\ fetching = <<>>
  /\ loading' = TRUE
  /\ \E page \in FetchedPages : fetching' = <<page>>
  /\ UNCHANGED <<apartments, calls, serverVars, bookings, resp, runVars, q, runs>>

\* the rest of fetchBookings: the store's bookings are replaced by the answer
FetchComplete ==
  /\ fetching # <<>>
  /\ bookings' = [i \in 1..Len(fetching[1]) |-> FormatBooking(fetching[1][i])]
  /\ loading' = FALSE
  /\ fetching' = <<>>
  /\ UNCHANGED <<apartments, calls, serverVars, resp, runVars, q, runs>>

\* tables in which no two bookings of one apartment overlap
ConflictFree(rows) ==
  \A r1, r2 \in rows :
     (r1.id # r2.id /\ r1.apt # Null /\ r1.apt = r2.apt)
        => ~areIntervalsOverlapping(r1.ci, r1.co, r2.ci, r2.co)

InitOverlap ==
  /\ InitQuery
  /\ ConflictFree(db)
  /\ \A r \in db : r.tmp = Null

NextOverlap ==
  \/ \E r \in Runs : RunStart(r)
  \/ \E r \in Runs : RunSend(r)
  \/ \E r \in Runs : RunReceive(r)
  \/ \E r \in Runs : RunFinish(r)
  \/ FetchStart
  \/ FetchComplete

\* the Assign page on a store in step with the server and free of conflicts
SpecOverlap == InitOverlap /\ [][NextOverlap]_vars

(* --------------- fetchBookings on a table of many bookings -------------- *)
\* a season of n one-night stays in the first apartment, one after the other
\* (check-in days 1..n: the days of a table run beyond MaxTime here, no request
\* with a window is made)
SeasonRows(n) ==
  {[id |-> i, guest |-> i, ci |-> i, co |-> i + 1, apt |-> 1, tmp |-> Null] : i \in 1..n}

\* the page is opened: the store is empty until the first fetchBookings
InitFetch ==
  /\ apartments \in ApartmentLists
  /\ runs = NoRuns
  /\ fetching = <<>>
  /\ loading = FALSE
  /\ \E n \in 0..MaxFetchRows : db = SeasonRows(n)
  /\ nextId = Cardinality(db) + 1
  /\ bookings = <<>>
  /\ resp = 0
  /\ pc = "idle"
  /\ sortedBookings = <<>>
  /\ idx = 0
  /\ assignedCount = 0
  /\ failedCount = 0
  /\ runLog = <<>>
  /\ q = NoQuery
  /\ calls = NoCalls

NextFetch ==
  \/ FetchStart
  \/ FetchComplete

SpecFetch == InitFetch /\ [][NextFetch]_vars

(* ------------- updates that the server rejects or fails ----------------- *)
\* the Bookings page's form and delete dialog and one auto-assign run, on any
\* tables: the form is used between runs; a booking of the run's queue may be
\* deleted before the run reaches it, and its PUT is then answered 404
NextFailure ==
  \/ \E id \in BookingIds, ci, co \in Times, apt \in RequestApts : EditBooking(id, ci, co, apt)
  \/ \E id \in BookingIds : confirmDelete(id)
  \/ AutoAssignStart
  \/ AutoAssignStep
  \/ AutoAssignFinish

SpecFailure == InitQuery /\ [][NextFailure]_vars

(* ================================ claims ================================ *)
\* the half-open overlap of the specification, on instants
HalfOpenOverlap(aStart, aEnd, bStart, bEnd) == aStart < bEnd /\ bStart < aEnd

Elems(s) == {s[i] : i \in 1..Len(s)}

IsFavoriteId(id) == \E i \in 1..Len(apartments) : apartments[i].id = id /\ apartments[i].isFavorite

\* C1: no double-booking -- no two distinct stored bookings of one apartment
\* have overlapping [checkIn, checkOut)
C1_NoDoubleBooking ==
  \A r1, r2 \in db :
     (r1.id # r2.id /\ r1.apt # Null /\ r1.apt = r2.apt)
        => ~HalfOpenOverlap(r1.ci, r1.co, r2.ci, r2.co)

\* a stored booking other than `id` on apartment `apt` overlaps booking `id`
ManualConflict(id, apt) ==
  \E r \in db :
     /\ r.id # id
     /\ r.apt = apt
     /\ HalfOpenOverlap(r.ci, r.co, RowById(db, id).ci, RowById(db, id).co)

\* C2: a manual assignment (booking-list select or Assign dialog) to an
\* apartment that holds an overlapping booking is answered 409 and leaves the
\* stored bookings unchanged
C2_ManualAssignmentGated ==
  [][\A id \in BookingIds, apt \in AptIds :
        ((UpdateAssignment(id, apt) \/ ConfirmAssign(id, apt)) /\ ManualConflict(id, apt))
           => (resp' = 409 /\ db' = db /\ bookings' = bookings)]_vars

\* apartments of the table with no stored booking overlapping [ci, co)
FreeInDb(ci, co) ==
  {apartments[i].id : i \in {j \in 1..Len(apartments) :
      ~\E r \in db : r.apt = apartments[j].id /\ HalfOpenOverlap(r.ci, r.co, ci, co)}}

\* apartments of the store with no local booking overlapping [ci, co)
FreeInStore(ci, co) ==
  {apartments[i].id : i \in {j \in 1..Len(apartments) :
      ~\E k \in 1..Len(bookings) :
          bookings[k].apt = apartments[j].id
          /\ HalfOpenOverlap(bookings[k].ci, bookings[k].co, ci, co)}}

\* C3: every server conflict query flags a stored booking iff it overlaps the
\* requested window in the half-open sense: the WHERE clause itself, the
\* available-apartments answer, and the 409 of create and of update
C3_ConflictQueryIsHalfOpenOverlap ==
  /\ [](q.kind = "overlap" => (q.sql <=> HalfOpenOverlap(q.eci, q.eco, q.ci, q.co)))
  /\ [](q.kind = "server" => Elems(q.out) = FreeInDb(q.ci, q.co))
  /\ [][\A ci, co \in Times, apt \in AptIds :
          (AddBooking(ci, co, apt, Undef) /\ ci < co /\ apt \in ApartmentIdsOf(apartments))
             => (resp' = 409 <=> apt \notin FreeInDb(ci, co))]_vars
  /\ [][\A id \in BookingIds, ci, co \in Times, apt \in AptIds :
          (EditBooking(id, ci, co, apt) /\ ci < co)
             => (resp' = 409 <=>
                   \E r \in db : r.id # id /\ r.apt = apt /\ HalfOpenOverlap(r.ci, r.co, ci, co))]_vars

\* every booking of the apartment lies outside [ci, co), one of them sharing
\* a boundary instant with it
AbutsInDb(apt, ci, co) ==
  /\ \A r \in db : r.apt = apt => (r.co <= ci \/ co <= r.ci)
  /\ \E r \in db : r.apt = apt /\ (r.co = ci \/ co = r.ci)

AbutsInStore(apt, ci, co) ==
  /\ \A k \in 1..Len(bookings) :
        bookings[k].apt = apt => (bookings[k].co <= ci \/ co <= bookings[k].ci)
  /\ \E k \in 1..Len(bookings) :
        bookings[k].apt = apt /\ (bookings[k].co = ci \/ co = bookings[k].ci)

\* C4: a shared boundary is no conflict -- an apartment whose bookings only
\* abut the window is returned by both availability queries, and a create for
\* it is accepted
C4_SharedBoundaryIsNoConflict ==
  /\ [](q.kind = "store" =>
          \A apt \in ApartmentIdsOf(apartments) :
             AbutsInStore(apt, q.ci, q.co) => apt \in Elems(q.out))
  /\ [](q.kind = "server" =>
          \A apt \in ApartmentIdsOf(apartments) :
             AbutsInDb(apt, q.ci, q.co) => apt \in Elems(q.out))
  /\ [][\A ci, co \in Times, apt \in AptIds :
          (AddBooking(ci, co, apt, Undef) /\ ci < co /\ AbutsInDb(apt, ci, co))
             => (resp' = 201 /\ \E r \in db' \ db : r.apt = apt /\ r.ci = ci /\ r.co = co)]_vars

\* a create next to an abutting booking of the same apartment was accepted
C4_Witness ==
  /\ resp = 201
  /\ \E r1, r2 \in db :
        /\ r2.id = nextId - 1
        /\ r1.id # r2.id
        /\ r1.apt = r2.apt
        /\ r1.apt # Null
        /\ (r1.co = r2.ci \/ r2.co = r1.ci)
  /\ q.kind = "store"
  /\ \E apt \in Elems(q.out) : AbutsInStore(apt, q.ci, q.co)

\* C5: both overlap predicates give the same answer when the stored booking
\* and the requested window are swapped
C5_OverlapSymmetric ==
  q.kind = "overlap" => (q.js = q.jsSwapped /\ q.sql = q.sqlSwapped)

\* C6: getAvailableApartments returns exactly the apartments with no booking
\* overlapping the window, each once
C6_AvailabilityMembership ==
  q.kind = "store" =>
     /\ Elems(q.out) = FreeInStore(q.ci, q.co)
     /\ Len(q.out) = Cardinality(Elems(q.out))

\* an apartment is excluded by an overlapping booking while another, booked
\* outside the window, is returned
C6_Witness ==
  /\ q.kind = "store"
  /\ Len(q.out) = 1
  /\ Len(apartments) = 2
  /\ \E k \in 1..Len(bookings) : bookings[k].apt = q.out[1]

\* C7: in the answer of either availability query no non-favorite apartment
\* comes before a favorite one
C7_FavoritesFirst ==
  q.kind \in {"store", "server"} =>
     \A i, j \in 1..Len(q.out) :
        i < j => ~(~IsFavoriteId(q.out[i]) /\ IsFavoriteId(q.out[j]))

\* the store answers a favorite before a non-favorite that precedes it in the
\* apartment list
C7_Witness ==
  /\ q.kind = "store"
  /\ Len(q.out) = 2
  /\ IsFavoriteId(q.out[1])
  /\ ~IsFavoriteId(q.out[2])
  /\ apartments[1].id = q.out[2]

(* ----------------------- claims about an auto-assign run ---------------- *)
RunIds == {sortedBookings[i].id : i \in 1..Len(sortedBookings)}

\* the store's bookings as they were when the run started: the run has only
\* set apartmentId on bookings of its queue
StartBookings ==
  [k \in 1..Len(bookings) |->
     IF bookings[k].id \in RunIds THEN [bookings[k] EXCEPT !.apt = Null] ELSE bookings[k]]

\* apartments free for booking b when the run started
FreeAtStart(b) ==
  {apartments[i].id : i \in {j \in 1..Len(apartments) :
      ~\E k \in 1..Len(StartBookings) :
          StartBookings[k].apt = apartments[j].id
          /\ HalfOpenOverlap(StartBookings[k].ci, StartBookings[k].co, b.ci, b.co)}}

PositionInStore(id) == CHOOSE k \in 1..Len(bookings) : bookings[k].id = id

QueueOverlap(i, j) ==
  HalfOpenOverlap(sortedBookings[i].ci, sortedBookings[i].co,
                  sortedBookings[j].ci, sortedBookings[j].co)

\* C8: within one run an availability computation sees the assignments made
\* earlier in the run, two overlapping bookings of the queue never get the
\* same apartment, and of two bookings with one window and one free apartment
\* exactly one is assigned and the other counted as failed
C8_BatchConsistency ==
  /\ \A i, j \in 1..Len(runLog) :
        (i < j /\ runLog[i].apt # Null /\ QueueOverlap(i, j))
           => (runLog[i].apt \notin Elems(runLog[j].avail) /\ runLog[j].apt # runLog[i].apt)
  /\ \A r1, r2 \in db :
        (r1.id # r2.id /\ r1.id \in RunIds /\ r2.id \in RunIds /\ r1.apt # Null /\ r1.apt = r2.apt)
           => ~HalfOpenOverlap(r1.ci, r1.co, r2.ci, r2.co)
  /\ (/\ pc = "done"
      /\ Len(sortedBookings) = 2
      /\ sortedBookings[1].ci = sortedBookings[2].ci
      /\ sortedBookings[1].co = sortedBookings[2].co
      /\ Cardinality(FreeAtStart(sortedBookings[1])) = 1)
        => /\ assignedCount = 1
           /\ failedCount = 1
           /\ Cardinality({r \in db : r.id \in RunIds /\ r.apt # Null}) = 1
           /\ \E r \in db : r.id \in RunIds /\ r.apt \in FreeAtStart(sortedBookings[1])

\* a finished run over two bookings of one window with one free apartment:
\* one assigned, one failed
C8_Witness ==
  /\ pc = "done"
  /\ Len(sortedBookings) = 2
  /\ sortedBookings[1].ci = sortedBookings[2].ci
  /\ sortedBookings[1].co = sortedBookings[2].co
  /\ Cardinality(FreeAtStart(sortedBookings[1])) = 1
  /\ assignedCount = 1
  /\ failedCount = 1

\* C9: the queue is attempted in non-decreasing checkIn order, ties in the
\* store's order; of two overlapping bookings competing for one free
\* apartment the one with the earlier checkIn gets it and the other fails
C9_ProcessingOrder ==
  /\ \A i, j \in 1..Len(sortedBookings) :
        i < j => /\ sortedBookings[i].ci <= sortedBookings[j].ci
                 /\ (sortedBookings[i].ci = sortedBookings[j].ci
                       => PositionInStore(sortedBookings[i].id) < PositionInStore(sortedBookings[j].id))
  /\ \A i \in 1..Len(runLog) : runLog[i].id = sortedBookings[i].id
  /\ pc = "running" => Len(runLog) = idx - 1
  /\ pc = "done" => Len(runLog) = Len(sortedBookings)
  /\ \A p, r \in 1..Len(sortedBookings) :
        (/\ pc = "done"
         /\ Len(sortedBookings) = 2
         /\ p # r
         /\ sortedBookings[p].ci < sortedBookings[r].ci
         /\ QueueOverlap(p, r)
         /\ Cardinality(FreeAtStart(sortedBookings[p])) = 1
         /\ FreeAtStart(sortedBookings[p]) = FreeAtStart(sortedBookings[r]))
           => /\ p = 1
              /\ runLog[p].apt \in FreeAtStart(sortedBookings[p])
              /\ runLog[r].apt = Null
              /\ RowById(db, sortedBookings[r].id).apt = Null

\* scenario D with the later booking first in the store: it is the earlier
\* checkIn that got the apartment
C9_Witness ==
  /\ pc = "done"
  /\ Len(sortedBookings) = 2
  /\ sortedBookings[1].ci < sortedBookings[2].ci
  /\ QueueOverlap(1, 2)
  /\ PositionInStore(sortedBookings[1].id) > PositionInStore(sortedBookings[2].id)
  /\ Cardinality(FreeAtStart(sortedBookings[1])) = 1
  /\ FreeAtStart(sortedBookings[1]) = FreeAtStart(sortedBookings[2])
  /\ runLog[1].apt # Null
  /\ runLog[2].apt = Null

\* C10: the apartment assigned is the first entry of the available list, and
\* a non-favorite is assigned only when no favorite is available
C10_TargetIsFirstAvailable ==
  \A i \in 1..Len(runLog) :
     runLog[i].avail # <<>> =>
        /\ runLog[i].apt = runLog[i].avail[1]
        /\ RowById(db, runLog[i].id).apt = runLog[i].avail[1]
        /\ ~IsFavoriteId(runLog[i].apt) => \A a \in Elems(runLog[i].avail) : ~IsFavoriteId(a)

\* a run that gave the favorite, listed after a non-favorite in the apartment
\* list, to its first booking and the non-favorite to the overlapping second
C10_Witness ==
  /\ Len(runLog) = 2
  /\ Len(runLog[1].avail) = 2
  /\ IsFavoriteId(runLog[1].apt)
  /\ apartments[1].id # runLog[1].apt
  /\ ~IsFavoriteId(apartments[1].id)
  /\ runLog[2].apt = apartments[1].id
  /\ QueueOverlap(1, 2)

\* C11: partial success of a run -- a booking with no available apartment
\* stays unassigned and is counted as failed, the run goes on to every later
\* booking, an assignment made earlier in the run stays as made, and at the
\* end assignedCount + failedCount is the number of bookings of the queue
C11_PartialSuccess ==
  /\ pc \in {"running", "done"} =>
        /\ assignedCount + failedCount = Len(runLog)
        /\ failedCount = Cardinality({i \in 1..Len(runLog) : runLog[i].apt = Null})
        /\ \A i \in 1..Len(runLog) :
              /\ runLog[i].id = sortedBookings[i].id
              /\ runLog[i].avail = <<>> => runLog[i].apt = Null
              /\ RowById(db, runLog[i].id).apt = runLog[i].apt
              /\ StoreBooking(runLog[i].id).apt = runLog[i].apt
  /\ pc = "running" => (idx = Len(runLog) + 1 /\ idx <= Len(sortedBookings))
  /\ pc = "done" =>
        /\ Len(runLog) = Len(sortedBookings)
        /\ assignedCount + failedCount = Len(sortedBookings)

\* a finished run whose first booking found no apartment and whose second
\* booking was then assigned one
C11_Witness ==
  /\ pc = "done"
  /\ Len(sortedBookings) = 2
  /\ runLog[1].avail = <<>>
  /\ runLog[2].apt # Null
  /\ assignedCount = 1
  /\ failedCount = 1

\* C12: mutual exclusion of the assignment kinds -- no stored booking and no
\* booking of the store has both apartmentId and temporaryApartment set
C12_MutualExclusion ==
  /\ \A r \in db : ~(Truthy(r.apt) /\ Truthy(r.tmp))
  /\ \A k \in 1..Len(bookings) : ~(Truthy(bookings[k].apt) /\ Truthy(bookings[k].tmp))

\* C13: a successful assignment of a regular apartment (Assign dialog,
\* booking-list select, auto-assign) leaves the booking without a temporary
\* apartment, and a successful temporary assignment leaves it without an
\* apartmentId
C13_TransitionClearsOther ==
  [][/\ \A id \in BookingIds, apt \in AptIds :
          ((handleConfirmAssign(id, apt) \/ handleUpdateAssignment(id, apt)) /\ resp' = 200)
             => /\ RowById(db', id).apt = apt
                /\ ~Truthy(RowById(db', id).tmp)
     /\ (AutoAssignStep /\ runLog'[Len(runLog')].apt # Null)
             => /\ RowById(db', runLog'[Len(runLog')].id).apt = runLog'[Len(runLog')].apt
                /\ ~Truthy(RowById(db', runLog'[Len(runLog')].id).tmp)
     /\ \A id \in BookingIds :
          (handleConfirmAssignTemporary(id) /\ resp' = 200)
             => /\ Truthy(RowById(db', id).tmp)
                /\ ~Truthy(RowById(db', id).apt)]_vars

\* C14: an explicit unassign (the "unassigned" entry of the booking-list
\* select, the remove button of a temporary apartment) succeeds from either
\* assigned state and leaves the booking with neither apartmentId nor
\* temporaryApartment, its guestName, checkIn and checkOut as they were, in
\* the Assign page's unassigned queue and so open to the assign handlers
C14_UnassignTransition ==
  [][\A id \in BookingIds :
        handleUpdateAssignment(id, Null)
           => /\ resp' = 200
              /\ RowById(db', id) = [RowById(db, id) EXCEPT !.apt = Null, !.tmp = Null]
              /\ \A r \in db : r.id # id => r \in db'
              /\ \E k \in 1..Len(unassignedBookings') :
                    unassignedBookings'[k] =
                       [StoreBooking(id) EXCEPT !.apt = Null, !.tmp = Null]]_vars

\* a booking that a run assigned to an apartment, that was then unassigned
\* and has been assigned again, now to a temporary apartment
C14_Witness ==
  /\ pc \in {"running", "done"}
  /\ \E i \in 1..Len(runLog) :
        /\ runLog[i].apt # Null
        /\ RowById(db, runLog[i].id).apt = Null
        /\ RowById(db, runLog[i].id).tmp = TmpLabel
        /\ StoreBooking(runLog[i].id).apt = Null
        /\ StoreBooking(runLog[i].id).tmp = TmpLabel

\* C15: an availability query (store or server) on a window with
\* end <= start fails with an error and answers no apartment list
C15_InvalidRangeFails ==
  (q.kind \in {"store", "server"} /\ q.co <= q.ci) => (q.err /\ q.out = <<>>)

\* C16: an invalid interval is rejected everywhere -- a create, an update or
\* a batch element with checkOut <= checkIn is answered with an error and
\* leaves the stored bookings unchanged, and every stored booking has
\* checkOut > checkIn
C16_InvalidIntervalRejected ==
  /\ [](\A r \in db : r.co > r.ci)
  /\ [][\A ci, co \in Times, apt \in RequestApts, tmp \in {Undef, TmpLabel} :
          (AddBooking(ci, co, apt, tmp) /\ co <= ci) => (resp' = 400 /\ db' = db)]_vars
  /\ [][\A id \in BookingIds, ci, co \in Times, apt \in RequestApts :
          (EditBooking(id, ci, co, apt) /\ co <= ci) => (resp' = 400 /\ db' = db)]_vars
  /\ [][\A n \in 1..MaxBookings : \A reqs \in [1..n -> BatchRequests] :
          (BatchCreate(reqs) /\ \E i \in 1..n : reqs[i].co <= reqs[i].ci)
             => (resp' >= 400 /\ db' = db)]_vars

\* an apartment id that is set and not in the apartment list
UnknownApartment(apt) == Truthy(apt) /\ apt \notin ApartmentIdsOf(apartments)

\* C17: a create, an update or a batch element naming an apartment that is
\* not in the apartment list is answered with a not-found error (404) and
\* stores and changes nothing; no stored booking names such an apartment
C17_UnknownApartmentSurfaced ==
  /\ [](\A r \in db : r.apt # Null => r.apt \in ApartmentIdsOf(apartments))
  /\ [][\A ci, co \in Times, apt \in RequestApts, tmp \in {Undef, TmpLabel} :
          (AddBooking(ci, co, apt, tmp) /\ ci < co /\ UnknownApartment(apt))
             => (resp' = 404 /\ db' = db /\ bookings' = bookings)]_vars
  /\ [][\A id \in BookingIds, ci, co \in Times, apt \in RequestApts :
          (EditBooking(id, ci, co, apt) /\ ci < co /\ UnknownApartment(apt))
             => (resp' = 404 /\ db' = db /\ bookings' = bookings)]_vars
  /\ [][\A n \in 1..MaxBookings : \A reqs \in [1..n -> BatchRequests] :
          (BatchCreate(reqs)
             /\ \E i \in 1..n : reqs[i].ci < reqs[i].co /\ UnknownApartment(reqs[i].apt))
             => (resp' = 404 /\ db' = db)]_vars

\* C18: a create with an apartment_id whose window overlaps a stored booking
\* of that apartment is answered 409, the booking the answer names is on that
\* apartment and overlaps the window, and nothing is inserted
C18_ConflictingCreateIdentified ==
  [][\A ci, co \in Times, apt \in AptIds :
        (/\ AddBooking(ci, co, apt, Undef)
         /\ ci < co
         /\ \E r \in db : r.apt = apt /\ HalfOpenOverlap(r.ci, r.co, ci, co))
           => /\ resp' = 409
              /\ db' = db
              /\ bookings' = bookings
              /\ PostConflicting(db, [ci |-> ci, co |-> co, apt |-> apt]) # {}
              /\ \A c \in PostConflicting(db, [ci |-> ci, co |-> co, apt |-> apt]) :
                    c.apt = apt /\ HalfOpenOverlap(c.ci, c.co, ci, co)]_vars

\* a booking of the scheduling domain: on an apartment, without a temporary
\* apartment
InDomain(b) == Truthy(b.apt) /\ ~Truthy(b.tmp)

\* C19: bookings with a temporary apartment, or without an apartmentId, are
\* outside the scheduling domain -- an apartment is left out of an
\* availability answer, and a create or update is answered 409, only on
\* account of an overlapping booking of the domain
C19_OutsideSchedulingDomain ==
  /\ [](q.kind = "store" =>
          \A a \in ApartmentIdsOf(apartments) \ Elems(q.out) :
             \E k \in 1..Len(bookings) :
                /\ InDomain(bookings[k])
                /\ bookings[k].apt = a
                /\ HalfOpenOverlap(bookings[k].ci, bookings[k].co, q.ci, q.co))
  /\ [](q.kind = "server" =>
          \A a \in ApartmentIdsOf(apartments) \ Elems(q.out) :
             \E r \in db :
                InDomain(r) /\ r.apt = a /\ HalfOpenOverlap(r.ci, r.co, q.ci, q.co))
  /\ [][\A ci, co \in Times, apt \in AptIds :
          (AddBooking(ci, co, apt, Undef) /\ resp' = 409)
             => \E r \in db :
                   InDomain(r) /\ r.apt = apt /\ HalfOpenOverlap(r.ci, r.co, ci, co)]_vars
  /\ [][\A id \in BookingIds, ci, co \in Times, apt \in RequestApts :
          (EditBooking(id, ci, co, apt) /\ resp' = 409)
             => \E r \in db :
                   /\ r.id # id
                   /\ InDomain(r)
                   /\ r.apt = (IF apt = Undef THEN RowById(db, id).apt ELSE apt)
                   /\ HalfOpenOverlap(r.ci, r.co, ci, co)]_vars

\* two callers' requests compete: same apartment, overlapping windows
Competing(c, d) ==
  /\ c # d
  /\ calls[c].pc = "checked"
  /\ calls[d].pc = "checked"
  /\ calls[c].apt = calls[d].apt
  /\ Truthy(calls[c].apt)
  /\ HalfOpenOverlap(calls[c].ci, calls[c].co, calls[d].ci, calls[d].co)

\* C20: check-then-act race of POST /bookings -- the overlap check decides
\* on the table as it is when the handler reads it (a request passes iff the
\* conflict query selects no row then), and the write that follows is
\* unconditional: of two competing requests that both passed, each is
\* inserted and leaves the other free to insert
C20_CheckThenActRace ==
  /\ [][\A c \in Callers, ci, co \in Times, apt \in AptIds :
          (PostCheck(c, ci, co, apt) /\ ci < co /\ apt \in ApartmentIdsOf(apartments))
             => /\ calls'[c].pc = "checked"
                   <=> ~\E r \in db : r.apt = apt /\ SqlOverlap(r.ci, r.co, ci, co)
                /\ db' = db]_vars
  /\ [][\A c, d \in Callers :
          (PostInsert(c) /\ Competing(c, d))
             => /\ resp' = 201
                /\ \E r \in db' \ db :
                      r.apt = calls[c].apt /\ r.ci = calls[c].ci /\ r.co = calls[c].co
                /\ calls'[d] = calls[d]]_vars

\* both callers have inserted: two bookings of one apartment for one and the
\* same window, which no create after the other's insert would have passed
C20_Witness ==
  /\ \A c \in Callers : calls[c].pc = "idle"
  /\ \E r1, r2 \in db :
        /\ r1.id # r2.id
        /\ r1.apt = r2.apt
        /\ r1.apt # Null
        /\ r1.ci = r2.ci
        /\ r1.co = r2.co

\* C22: in every view that computes per-day occupancy (best-dates scoring,
\* occupancy grid, month view of an apartment) a booking is counted on day D
\* exactly when D >= checkIn and D < checkOut: the checkout day is not counted
OccupiesDay(b, day) == day >= b.ci /\ day < b.co

C22_DayOccupancyHalfOpen ==
  /\ q.kind = "bestDates" =>
        q.counted = {bookings[k].id : k \in {j \in 1..Len(bookings) :
                                                OccupiesDay(bookings[j], q.day)}}
  /\ q.kind \in {"grid", "month"} =>
        q.counted = {bookings[k].id : k \in {j \in 1..Len(bookings) :
                                                /\ bookings[j].apt = q.apt
                                                /\ OccupiesDay(bookings[j], q.day)}}

\* C23: in the answer of either availability query the favorite apartments
\* keep the relative order they have in the store's apartment list, and so do
\* the non-favorite ones (a stable partition of the list)
PositionInList(id) == CHOOSE i \in 1..Len(apartments) : apartments[i].id = id

KeepsListOrder(out) ==
  \A i, j \in 1..Len(out) :
     (i < j /\ IsFavoriteId(out[i]) = IsFavoriteId(out[j]))
        => PositionInList(out[i]) < PositionInList(out[j])

C23_StablePartition ==
  q.kind \in {"store", "server"} => KeepsListOrder(q.out)

EditTarget(id, apt) == IF apt # Undef THEN apt ELSE RowById(db, id).apt

OthersOverlap(id, target, ci, co) ==
  \E r \in db : r.id # id /\ r.apt = target /\ HalfOpenOverlap(r.ci, r.co, ci, co)

C25_DateEditCheckedAgainstOthers ==
  [][\A id \in BookingIds, ci, co \in Times, apt \in RequestApts :
       (/\ EditBooking(id, ci, co, apt)
        /\ ci < co
        /\ Truthy(EditTarget(id, apt)))
          => ((resp' = 409 /\ db' = db /\ bookings' = bookings)
                <=> OthersOverlap(id, EditTarget(id, apt), ci, co))]_vars

\* C26: when the store holds the server's bookings and apartments, the
\* server's available-apartments answer for a window with end > start has the
\* same apartments as the store's getAvailableApartments for that window
StoreInSync ==
  {bookings[k] : k \in 1..Len(bookings)} = {FormatBooking(r) : r \in db}

C26_ClientServerAgree ==
  (q.kind = "server" /\ q.ci < q.co /\ StoreInSync)
     => Elems(q.out) = Elems(IdsOf(getAvailableApartments(apartments, bookings, q.ci, q.co)))

\* C27: an auto-assign run takes for its queue bookings that have neither an
\* apartmentId nor a temporaryApartment at that moment (in the store and on
\* the server), each of them once; an iteration changes nothing but the
\* apartmentId of the booking it is about: guestName, checkIn, checkOut and
\* temporaryApartment of that booking, every other booking and the apartment
\* list are as before
HadNeither(b) == b.apt = Null /\ b.tmp = Null

OtherRows(rows, id) == {r \in rows : r.id # id}

SameButApartment(old, new) ==
  /\ new.id = old.id /\ new.guest = old.guest
  /\ new.ci = old.ci /\ new.co = old.co /\ new.tmp = old.tmp

C27_AutoAssignFrame ==
  /\ [][AutoAssignStart =>
          \A i \in 1..Len(sortedBookings') :
             /\ \E k \in 1..Len(bookings) : bookings[k] = sortedBookings'[i]
             /\ HadNeither(sortedBookings'[i])
             /\ HadNeither(RowById(db, sortedBookings'[i].id))]_vars
  /\ [](pc \in {"running", "done"} =>
          /\ \A i, j \in 1..Len(sortedBookings) :
                i # j => sortedBookings[i].id # sortedBookings[j].id
          /\ Len(runLog) = idx - 1
          /\ \A i \in 1..Len(runLog) : runLog[i].id = sortedBookings[i].id)
  /\ [][AutoAssignStep =>
          LET id == sortedBookings[idx].id
          IN /\ apartments' = apartments
             /\ OtherRows(db', id) = OtherRows(db, id)
             /\ \A old \in db, new \in db' :
                   (old.id = id /\ new.id = id)
                      => /\ SameButApartment(old, new)
                         /\ new.apt \in {old.apt, runLog'[idx].apt}
             /\ Cardinality(db') = Cardinality(db)
             /\ Len(bookings') = Len(bookings)
             /\ \A k \in 1..Len(bookings) :
                   /\ SameButApartment(bookings[k], bookings'[k])
                   /\ bookings[k].id # id => bookings'[k] = bookings[k]
                   /\ bookings[k].id = id
                         => bookings'[k].apt \in {bookings[k].apt, runLog'[idx].apt}]_vars

\* a finished run that assigned a booking of its queue and left alone a
\* booking with an apartment and a booking with a temporary apartment
C27_Witness ==
  /\ pc = "done"
  /\ \E i \in 1..Len(runLog) : runLog[i].apt # Null
  /\ \E k \in 1..Len(bookings) :
        bookings[k].id \notin RunIds /\ bookings[k].tmp # Null

C29_StoreSeesEveryBooking ==
  (fetching = <<>> /\ ~loading /\ bookings # <<>>)
     => \A r \in db : \E k \in 1..Len(bookings) : bookings[k] = FormatBooking(r)

\* C30: a call of updateBooking that the server does not answer with 200
\* leaves the store's bookings (and the table) as they were and hands the
\* failure to its caller; an iteration of an auto-assign run whose update
\* fails counts the booking as failed, counts nothing as assigned and goes on
\* to the next booking of the queue
UpdateFailedInRun ==
  /\ AutoAssignStep
  /\ runLog'[idx].avail # <<>>
  /\ runLog'[idx].apt = Null

C30_FailedUpdateLeavesStore ==
  /\ [][resp' # 200 => (bookings' = bookings /\ db' = db)]_vars
  /\ [][UpdateFailedInRun =>
          /\ resp' \notin {0, 200}
          /\ bookings' = bookings
          /\ failedCount' = failedCount + 1
          /\ assignedCount' = assignedCount
          /\ idx' = idx + 1
          /\ sortedBookings' = sortedBookings
          /\ pc' = IF idx < Len(sortedBookings) THEN "running" ELSE "done"]_vars

\* a run whose update of one booking failed and which then assigned the next
\* booking of its queue
C30_Witness ==
  /\ pc \in {"running", "done"}
  /\ failedCount >= 1
  /\ assignedCount >= 1
  /\ \E i, j \in 1..Len(runLog) :
        /\ i < j
        /\ runLog[i].avail # <<>>
        /\ runLog[i].apt = Null
        /\ runLog[j].apt # Null
        /\ \E k \in 1..Len(bookings) :
              bookings[k].id = runLog[j].id /\ bookings[k].apt = runLog[j].apt

====
